---- MODULE Spec2Model ----
(***************************************************************************)
(* Model of scraper/scrape_calendar.py: the fetcher's retry loop, the      *)
(* date utilities, the calendar-table locator and row extractor, the       *)
(* detail resolver and main()'s pipeline (detail loop, year adjustment,    *)
(* deduplication, sort, persistence).                                      *)
(*                                                                         *)
(* A Python str is modelled as a sequence of one-character strings, so     *)
(* that DATE_RE, strip, upper, lower and substring tests are computed on   *)
(* characters as the code computes them.                                   *)
(***************************************************************************)
EXTENDS Integers, Sequences, FiniteSets, TLC

VARIABLES
    \* _req_get
    attempt, responses, slept, last_err, fetchState,
    \* ajustar_ano_prova_pelo_periodo_inscricao, applied once and reapplied
    inscricoes, prova, adjusted, readjusted, dpc,
    \* find_calendar_table and parse_main_table: the parsed page, the table
    \* and header labels returned (0 for None), the records extracted and,
    \* for each record, the index of the <tr> it was read from
    page, located, headers, rows_out, emitted_from, tpc,
    \* main: the records, the position of main and of the loop over them,
    \* the deduplicated list and the written files
    rows, mpc, idx, unique_rows, csv_file, json_file,
    \* parse_detail_page for rows[idx]: the variants, the loop position and
    \* the result so far
    variants, vpos, detail_out,
    \* history: the exam text each row had in the main table, what
    \* parse_detail_page did for each row, the URLs fetched for the current
    \* row, and unique_rows as it was before the sort
    main_prova, detail_of, tried, before_sort

fetchVars == <<attempt, responses, slept, last_err, fetchState>>
dateVars  == <<inscricoes, prova, adjusted, readjusted, dpc>>
tableVars == <<page, located, headers, rows_out, emitted_from, tpc>>
mainVars  == <<rows, mpc, idx, unique_rows, csv_file, json_file, variants, vpos, detail_out,
               main_prova, detail_of, tried, before_sort>>
vars      == <<fetchVars, dateVars, tableVars, mainVars>>

(***************************************************************************)
(* Each specification below runs one part of the program; the state of     *)
(* the other parts stays idle.                                             *)
(***************************************************************************)
\* last_err before any request has failed (None)
NoError == -1

FetchIdle ==
    /\ attempt = 0
    /\ responses = <<>>
    /\ slept = <<>>
    /\ last_err = NoError
    /\ fetchState = "idle"

DateIdle ==
    /\ inscricoes = <<>>
    /\ prova = <<>>
    /\ adjusted = <<>>
    /\ readjusted = <<>>
    /\ dpc = "idle"

TableIdle ==
    /\ page = <<>>
    /\ located = 0
    /\ headers = <<>>
    /\ rows_out = <<>>
    /\ emitted_from = <<>>
    /\ tpc = "idle"

MainIdle ==
    /\ rows = <<>>
    /\ mpc = "idle"
    /\ idx = 0
    /\ unique_rows = <<>>
    /\ csv_file = <<>>
    /\ json_file = <<>>
    /\ variants = <<>>
    /\ vpos = 0
    /\ detail_out = [f \in {} |-> <<>>]
    /\ main_prova = <<>>
    /\ detail_of = <<>>
    /\ tried = <<>>
    /\ before_sort = <<>>

(***************************************************************************)
(* Characters.                                                             *)
(***************************************************************************)
Digits == {"0", "1", "2", "3", "4", "5", "6", "7", "8", "9"}

LowerLetters ==
    {"a", "b", "c", "d", "e", "f", "g", "h", "i", "j", "k", "l", "m", "n",
     "o", "p", "q", "r", "s", "t", "u", "v", "w", "x", "y", "z",
     "ç", "ã", "õ", "é", "í"}

UpperLetters ==
    {"A", "B", "C", "D", "E", "F", "G", "H", "I", "J", "K", "L", "M", "N",
     "O", "P", "Q", "R", "S", "T", "U", "V", "W", "X", "Y", "Z",
     "Ç", "Ã", "Õ", "É", "Í"}

\* what \s and str.strip() take for white space
Whitespace == {" ", "\t", "\n"}

\* what \w matches in a str pattern: letters, digits and the underscore
IsWordChar(c) == c \in Digits \cup LowerLetters \cup UpperLetters \cup {"_"}

DigitVal(c) ==
    CASE c = "0" -> 0 [] c = "1" -> 1 [] c = "2" -> 2 [] c = "3" -> 3
      [] c = "4" -> 4 [] c = "5" -> 5 [] c = "6" -> 6 [] c = "7" -> 7
      [] c = "8" -> 8 [] c = "9" -> 9

DigitChar(n) == <<"0", "1", "2", "3", "4", "5", "6", "7", "8", "9">>[n + 1]

\* int() of the digits s[p .. p+n-1]
RECURSIVE IntOf(_, _, _)
IntOf(s, p, n) ==
    IF n = 0 THEN 0 ELSE 10 * IntOf(s, p, n - 1) + DigitVal(s[p + n - 1])

\* str(n) for n >= 0: decimal digits, no padding
RECURSIVE Dec(_)
Dec(n) == IF n < 10 THEN <<DigitChar(n)>> ELSE Dec(n \div 10) \o <<DigitChar(n % 10)>>

\* f"{n:02d}"
Pad2(n) == IF n < 10 THEN <<"0">> \o Dec(n) ELSE Dec(n)

(***************************************************************************)
(* DATE_RE = \b(\d{2})/(\d{2})/(\d{4})\b                                   *)
(***************************************************************************)
\* the pattern matches at position p of s (1-based)
DateAt(s, p) ==
    /\ p + 9 <= Len(s)
    /\ \A k \in {0, 1, 3, 4, 6, 7, 8, 9} : s[p + k] \in Digits
    /\ s[p + 2] = "/"
    /\ s[p + 5] = "/"
    /\ (p = 1 \/ ~IsWordChar(s[p - 1]))
    /\ (p + 10 > Len(s) \/ ~IsWordChar(s[p + 10]))

\* DATE_RE.finditer(s): start positions of the non-overlapping matches,
\* left to right
RECURSIVE MatchesFrom(_, _)
MatchesFrom(s, p) ==
    IF p + 9 > Len(s) THEN <<>>
    ELSE IF DateAt(s, p) THEN <<p>> \o MatchesFrom(s, p + 10)
    ELSE MatchesFrom(s, p + 1)

DateMatches(s) == MatchesFrom(s, 1)

\* m.groups() as integers: (d, m, y) of the match starting at p
GroupD(s, p) == IntOf(s, p, 2)
GroupM(s, p) == IntOf(s, p + 3, 2)
GroupY(s, p) == IntOf(s, p + 6, 4)

has_date(s) == DateMatches(s) # <<>>

\* [(int(y), int(m)) for every date of texto]
anos_meses_de(texto) ==
    LET ms == DateMatches(texto)
    IN  [k \in 1..Len(ms) |-> <<GroupY(texto, ms[k]), GroupM(texto, ms[k])>>]

\* {y for (y, m) in ins if m >= 10}
anos_q4_de(ins) == {ins[k][1] : k \in {j \in 1..Len(ins) : ins[j][2] >= 10}}

\* the test of line 80 on one date of the exam text
Q1MonthLoose(mm) == 1 <= mm /\ mm <= 4
Q1Month(mm) == 1 <= mm /\ mm <= 3

\* the loop of lines 78-83: matches k, k-1, ..., 1 of the ORIGINAL text are
\* spliced into new_prova at their original spans
RECURSIVE RewriteFrom(_, _, _, _, _)
RewriteFrom(orig, new_prova, prv, k, anos_q4) ==
    IF k = 0 THEN new_prova
    ELSE
        LET start == prv[k]
            d  == GroupD(orig, start)
            mm == GroupM(orig, start)
            yy == GroupY(orig, start)
            spliced ==
                SubSeq(new_prova, 1, start - 1)
                    \o Pad2(d) \o <<"/">> \o Pad2(mm) \o <<"/">> \o Dec(yy + 1)
                    \o SubSeq(new_prova, start + 10, Len(new_prova))
        IN  RewriteFrom(orig,
                        IF yy \in anos_q4 /\ Q1Month(mm) THEN spliced ELSE new_prova,
                        prv, k - 1, anos_q4)

ajustar_ano_prova_pelo_periodo_inscricao(ins_txt, prova_txt) ==
    LET ins == anos_meses_de(ins_txt)
        prv == DateMatches(prova_txt)
    IN  IF prova_txt = <<>> THEN prova_txt
        ELSE IF ins = <<>> \/ prv = <<>> THEN prova_txt
        ELSE RewriteFrom(prova_txt, prova_txt, prv, Len(prv), anos_q4_de(ins))

(***************************************************************************)
(* str methods and normalize_text.                                         *)
(***************************************************************************)
\* str.lower() and str.upper(), character by character
LowerOf(c) ==
    CASE c = "A" -> "a" [] c = "B" -> "b" [] c = "C" -> "c" [] c = "D" -> "d"
      [] c = "E" -> "e" [] c = "F" -> "f" [] c = "G" -> "g" [] c = "H" -> "h"
      [] c = "I" -> "i" [] c = "J" -> "j" [] c = "K" -> "k" [] c = "L" -> "l"
      [] c = "M" -> "m" [] c = "N" -> "n" [] c = "O" -> "o" [] c = "P" -> "p"
      [] c = "Q" -> "q" [] c = "R" -> "r" [] c = "S" -> "s" [] c = "T" -> "t"
      [] c = "U" -> "u" [] c = "V" -> "v" [] c = "W" -> "w" [] c = "X" -> "x"
      [] c = "Y" -> "y" [] c = "Z" -> "z" [] c = "Ç" -> "ç" [] c = "Ã" -> "ã"
      [] c = "Õ" -> "õ" [] c = "É" -> "é" [] c = "Í" -> "í" [] OTHER -> c

UpperOf(c) ==
    CASE c = "a" -> "A" [] c = "b" -> "B" [] c = "c" -> "C" [] c = "d" -> "D"
      [] c = "e" -> "E" [] c = "f" -> "F" [] c = "g" -> "G" [] c = "h" -> "H"
      [] c = "i" -> "I" [] c = "j" -> "J" [] c = "k" -> "K" [] c = "l" -> "L"
      [] c = "m" -> "M" [] c = "n" -> "N" [] c = "o" -> "O" [] c = "p" -> "P"
      [] c = "q" -> "Q" [] c = "r" -> "R" [] c = "s" -> "S" [] c = "t" -> "T"
      [] c = "u" -> "U" [] c = "v" -> "V" [] c = "w" -> "W" [] c = "x" -> "X"
      [] c = "y" -> "Y" [] c = "z" -> "Z" [] c = "ç" -> "Ç" [] c = "ã" -> "Ã"
      [] c = "õ" -> "Õ" [] c = "é" -> "É" [] c = "í" -> "Í" [] OTHER -> c

\* NFKD followed by the removal of combining marks: the base letter
Unaccent(c) ==
    CASE c = "ç" -> "c" [] c = "ã" -> "a" [] c = "õ" -> "o" [] c = "é" -> "e"
      [] c = "Ç" -> "C" [] c = "Ã" -> "A" [] c = "Õ" -> "O" [] c = "É" -> "E"
      [] c = "í" -> "i" [] c = "Í" -> "I" [] OTHER -> c

lower(s) == [k \in 1..Len(s) |-> LowerOf(s[k])]
upper(s) == [k \in 1..Len(s) |-> UpperOf(s[k])]

RECURSIVE lstrip(_)
lstrip(s) ==
    IF s # <<>> /\ s[1] \in Whitespace THEN lstrip(Tail(s)) ELSE s

RECURSIVE rstrip(_)
rstrip(s) ==
    IF s # <<>> /\ s[Len(s)] \in Whitespace
    THEN rstrip(SubSeq(s, 1, Len(s) - 1)) ELSE s

strip(s) == rstrip(lstrip(s))

\* re.sub(r"\s+", " ", s)
RECURSIVE collapse_ws(_)
collapse_ws(s) ==
    IF s = <<>> THEN <<>>
    ELSE IF s[1] \in Whitespace
    THEN <<" ">> \o collapse_ws(lstrip(s))
    ELSE <<s[1]>> \o collapse_ws(Tail(s))

normalize_text(s) ==
    LET stripped == lower(strip(s))
        plain    == [k \in 1..Len(stripped) |-> Unaccent(stripped[k])]
    IN  collapse_ws(plain)

\* `opt in h` for two str
Contains(h, opt) ==
    \E p \in 1..(Len(h) - Len(opt) + 1) :
        \A i \in 1..Len(opt) : h[p + i - 1] = opt[i]

(***************************************************************************)
(* ALIASES and header_key.                                                 *)
(***************************************************************************)
AliasKeys == <<"uf", "selecao", "inscricoes", "prova", "edital">>

ALIASES(k) ==
    CASE k = "uf" -> {<<"u", "f">>}
      [] k = "selecao" ->
            {<<"s", "e", "l", "e", "c", "a", "o">>, <<"s", "e", "l", "e", "c", "a", "o", "/", "i", "n", "s", "t", "i", "t", "u", "i", "c", "a", "o">>, <<"i", "n", "s", "t", "i", "t", "u", "i", "c", "a", "o">>,
             <<"i", "n", "s", "t", "i", "t", "u", "i", "c", "a", "o", "/", "s", "e", "l", "e", "ç", "ã", "o">>, <<"s", "e", "l", "e", "c", "a", "o", " ", "-", " ", "i", "n", "s", "t", "i", "t", "u", "i", "c", "a", "o">>}
      [] k = "inscricoes" ->
            {<<"i", "n", "s", "c", "r", "i", "c", "o", "e", "s">>, <<"i", "n", "s", "c", "r", "i", "c", "a", "o">>, <<"p", "e", "r", "i", "o", "d", "o", " ", "d", "e", " ", "i", "n", "s", "c", "r", "i", "c", "o", "e", "s">>}
      [] k = "prova" ->
            {<<"p", "r", "o", "v", "a", " ", "o", "b", "j", "e", "t", "i", "v", "a">>, <<"d", "a", "t", "a", " ", "d", "a", " ", "p", "r", "o", "v", "a">>, <<"p", "r", "o", "v", "a">>, <<"d", "a", "t", "a", " ", "p", "r", "o", "v", "a">>}
      [] k = "edital" -> {<<"e", "d", "i", "t", "a", "l">>, <<"l", "i", "n", "k", " ", "d", "o", " ", "e", "d", "i", "t", "a", "l">>}

NoKey == "none"

\* the first key, in the order of the dict, one of whose aliases is a
\* substring of the normalised label; NoKey for None
RECURSIVE KeyFrom(_, _)
KeyFrom(h, i) ==
    IF i > Len(AliasKeys) THEN NoKey
    ELSE IF \E opt \in ALIASES(AliasKeys[i]) : Contains(h, opt) THEN AliasKeys[i]
    ELSE KeyFrom(h, i + 1)

header_key(h_txt) == KeyFrom(normalize_text(h_txt), 1)

(***************************************************************************)
(* The parsed page.  A table is what the code asks BeautifulSoup about it: *)
(* whether find("thead") and find("tbody") find an element, and its <tr>   *)
(* in document order (find_all("tr")), each flagged with whether it lies   *)
(* inside the <thead>.  A cell is a <td> or <th> with its text and, when   *)
(* it holds an <a href>, the href.                                         *)
(***************************************************************************)
Td(text) == [th |-> FALSE, text |-> text, anchor |-> FALSE, href |-> <<>>]
Th(text) == [th |-> TRUE, text |-> text, anchor |-> FALSE, href |-> <<>>]
TdLink(text, href) == [th |-> FALSE, text |-> text, anchor |-> TRUE, href |-> href]

\* tag.get_text(strip=True) of a cell holding one text node
get_text(cell) == strip(cell.text)

\* the concatenation of a sequence of sequences
RECURSIVE FlattenSeq(_)
FlattenSeq(ss) == IF ss = <<>> THEN <<>> ELSE Head(ss) \o FlattenSeq(Tail(ss))

\* lines 121-127: the header labels of a table
HeaderLabels(tb) ==
    IF tb.thead
    THEN LET head_rows == SelectSeq(tb.rows, LAMBDA tr : tr.head)
             ths == SelectSeq(FlattenSeq([k \in 1..Len(head_rows) |-> head_rows[k].cells]),
                              LAMBDA c : c.th)
         IN  [k \in 1..Len(ths) |-> get_text(ths[k])]
    ELSE IF tb.rows # <<>>
    THEN [k \in 1..Len(tb.rows[1].cells) |-> get_text(tb.rows[1].cells[k])]
    ELSE <<>>

\* lines 128-129
Score(labels) ==
    Cardinality({"uf", "selecao", "inscricoes", "prova"}
                    \cap {header_key(labels[k]) : k \in 1..Len(labels)})

\* the threshold of line 130 and its off-by-one mutant
ReachesAbove(score) == score > 3
Reaches(score) == score >= 3

\* lines 116-131: the score of every table of the page, then the indices
\* of the candidate tables, in document order
Scores(pg) == [k \in 1..Len(pg) |-> Score(HeaderLabels(pg[k]))]

Candidates(pg, scores) ==
    SelectSeq([k \in 1..Len(pg) |-> k],
              LAMBDA k : pg[k].tbody /\ Reaches(scores[k]))

\* candidates.sort(key=score, reverse=True)[0]: the sort is stable, so the
\* first candidate in document order among those of the highest score
BestCandidate(scores, cands) ==
    LET best == CHOOSE k \in 1..Len(cands) :
                   \A j \in 1..Len(cands) :
                       \/ scores[cands[j]] < scores[cands[k]]
                       \/ (scores[cands[j]] = scores[cands[k]] /\ k <= j)
    IN  cands[best]

\* find_calendar_table: <<index of the table (0 for None), header labels>>
find_calendar_table(pg) ==
    LET scores == Scores(pg)
        cands == Candidates(pg, scores)
    IN  IF cands = <<>> THEN <<0, <<>>>>
        ELSE LET i == BestCandidate(scores, cands) IN <<i, HeaderLabels(pg[i])>>

(***************************************************************************)
(* parse_main_table.  Positions are 1-based here: header_map[k] = i in the *)
(* code is HeaderIndex = i + 1, and tds[1] is cells[2].                    *)
(***************************************************************************)
\* lines 142-147: header_map, with 0 for a key that is not in it
FirstIndex(keys, k) ==
    LET hits == {i \in 1..Len(keys) : keys[i] = k}
    IN  IF hits = {} THEN 0 ELSE CHOOSE i \in hits : \A j \in hits : i <= j

header_map_of(labels) ==
    LET keys == [i \in 1..Len(labels) |-> header_key(labels[i])]
    IN  [k \in {"uf", "selecao", "inscricoes", "prova", "edital"} |-> FirstIndex(keys, k)]

\* lines 150-152: the index of the first <tr> that is iterated
BodyRowsFrom(tb) == IF tb.thead /\ tb.rows # <<>> THEN 2 ELSE 1

\* col_text(k) of lines 159-163
col_text(header_map, tds, k) ==
    LET i == header_map[k]
    IN  IF i = 0 \/ i > Len(tds) THEN <<>> ELSE get_text(tds[i])

\* line 166
selecao_of(header_map, tds) ==
    IF col_text(header_map, tds, "selecao") # <<>>
    THEN col_text(header_map, tds, "selecao")
    ELSE get_text(tds[2])

\* _get_link(tag) for a cell; <<>> stands for None and for an empty href
get_link(cell) == IF cell.anchor THEN strip(cell.href) ELSE <<>>

\* _get_link(tr): the first <a href> of the row
get_link_row(tds) ==
    LET with_a == {i \in 1..Len(tds) : tds[i].anchor}
    IN  IF with_a = {} THEN <<>>
        ELSE get_link(tds[CHOOSE i \in with_a : \A j \in with_a : i <= j])

\* lines 171-180
edital_url_of(header_map, tds) ==
    LET i_edital == header_map["edital"]
        from_edital ==
            IF i_edital # 0 /\ i_edital <= Len(tds) THEN get_link(tds[i_edital]) ELSE <<>>
        i_sel == IF header_map["selecao"] # 0 THEN header_map["selecao"] ELSE 2
        from_sel ==
            IF from_edital # <<>> THEN from_edital
            ELSE IF i_sel <= Len(tds) THEN get_link(tds[i_sel]) ELSE <<>>
    IN  IF from_sel # <<>> THEN from_sel ELSE get_link_row(tds)

\* the body of the loop of lines 154-191 for the <tr> at index i: the
\* records it appends (none or one), each with the index of its <tr>
RowRecords(tb, header_map, i) ==
    LET tds == tb.rows[i].cells
    IN  IF Len(tds) < 3 THEN <<>>
        ELSE IF col_text(header_map, tds, "uf") = <<>> \/ selecao_of(header_map, tds) = <<>>
        THEN <<>>
        ELSE << [tr |-> i,
                 rec |-> [UF |-> col_text(header_map, tds, "uf"),
                          INSTITUICAO |-> selecao_of(header_map, tds),
                          INSCRICOES |-> col_text(header_map, tds, "inscricoes"),
                          PROVA_OBJETIVA |-> col_text(header_map, tds, "prova"),
                          EDITAL_URL |-> edital_url_of(header_map, tds)]] >>

RECURSIVE ParseFrom(_, _, _)
ParseFrom(tb, header_map, i) ==
    IF i > Len(tb.rows) THEN <<>>
    ELSE RowRecords(tb, header_map, i) \o ParseFrom(tb, header_map, i + 1)

\* header_map is built once (lines 142-147), then the rows are read
parse_main_table(tb, labels) ==
    CHOOSE out \in {ParseFrom(tb, header_map, BodyRowsFrom(tb)) :
                        header_map \in {header_map_of(labels)}} : TRUE

(***************************************************************************)
(* Pages.  A table is a shape (which of <thead> and <tbody> it has and     *)
(* where its header labels sit), a list of header labels and body rows.    *)
(***************************************************************************)
MaxTables == 2
MaxBodyRows == 2

LabelLists ==
    { <<<<"U", "F">>, <<"I", "n", "s", "t", "i", "t", "u", "i", "ç", "ã", "o">>, <<"I", "n", "s", "c", "r", "i", "ç", "õ", "e", "s">>, <<"P", "r", "o", "v", "a", " ", "O", "b", "j", "e", "t", "i", "v", "a">>, <<"E", "d", "i", "t", "a", "l">>>>,
      <<<<"I", "n", "s", "t", "i", "t", "u", "i", "ç", "ã", "o">>, <<"U", "F">>, <<"P", "e", "r", "í", "o", "d", "o", " ", "d", "e", " ", "i", "n", "s", "c", "r", "i", "ç", "õ", "e", "s">>, <<"D", "a", "t", "a", " ", "d", "a", " ", "P", "r", "o", "v", "a">>>>,
      <<<<"U", "F">>, <<"N", "o", "m", "e">>, <<"I", "n", "s", "c", "r", "i", "ç", "õ", "e", "s">>, <<"P", "r", "o", "v", "a">>>>,
      <<<<"C", "i", "d", "a", "d", "e">>, <<"V", "a", "g", "a", "s">>, <<"O", "b", "s">>>> }

BodyRowChoices ==
    { [head |-> FALSE,
       cells |-> <<Td(<<"S", "P">>), TdLink(<<"U", "S", "P">>, <<"/", "e", "1">>), Td(<<"0", "1", "/", "1", "1", "/", "2", "0", "2", "4">>),
                   Td(<<"1", "0", "/", "0", "2", "/", "2", "0", "2", "4">>), TdLink(<<"v", "e", "r">>, <<"/", "e", "2", " ">>)>>],
      [head |-> FALSE,
       cells |-> <<Td(<<" ">>), Td(<<"R", "J">>), Td(<<"0", "1", "/", "0", "8", "/", "2", "0", "2", "4">>), Td(<<"1", "5", "/", "0", "9", "/", "2", "0", "2", "4">>)>>],
      [head |-> FALSE,
       cells |-> <<Td(<<"M", "G">>), Td(<<>>), TdLink(<<"0", "5", "/", "0", "8", "/", "2", "0", "2", "4">>, <<>>), TdLink(<<"a", " ", "d", "e", "f", "i", "n", "i", "r">>, <<"/", "e", "3">>)>>],
      [head |-> FALSE, cells |-> <<Td(<<"B", "A">>), Td(<<"U", "F", "B", "A">>)>>] }

RECURSIVE SeqsUpTo(_, _)
SeqsUpTo(S, n) ==
    IF n = 0 THEN {<<>>}
    ELSE LET shorter == SeqsUpTo(S, n - 1)
         IN  shorter \cup {Append(q, x) : q \in shorter, x \in S}

Shapes == {"thead_th", "thead_td", "thead_empty", "first_row", "no_tbody", "headless"}

TableOf(shape, labels, body) ==
    LET th_row == [head |-> TRUE, cells |-> [k \in 1..Len(labels) |-> Th(labels[k])]]
        td_head == [head |-> TRUE, cells |-> [k \in 1..Len(labels) |-> Td(labels[k])]]
        td_row == [head |-> FALSE, cells |-> [k \in 1..Len(labels) |-> Td(labels[k])]]
    IN  CASE shape = "thead_th" ->
                [thead |-> TRUE, tbody |-> TRUE, rows |-> <<th_row>> \o body]
          [] shape = "thead_td" ->
                [thead |-> TRUE, tbody |-> TRUE, rows |-> <<td_head>> \o body]
          [] shape = "thead_empty" ->
                [thead |-> TRUE, tbody |-> TRUE, rows |-> body]
          [] shape = "first_row" ->
                [thead |-> FALSE, tbody |-> TRUE, rows |-> <<td_row>> \o body]
          [] shape = "no_tbody" ->
                [thead |-> FALSE, tbody |-> FALSE, rows |-> <<td_row>> \o body]
          [] shape = "headless" ->
                [thead |-> FALSE, tbody |-> TRUE, rows |-> body]

OneRowBody == <<CHOOSE r \in BodyRowChoices : Len(r.cells) = 5>>

\* pages of up to MaxTables tables that differ in shape and labels
ManyTablePages ==
    SeqsUpTo({TableOf(sh, ls, OneRowBody) : sh \in Shapes, ls \in LabelLists}, MaxTables)

\* pages of one table with up to MaxBodyRows body rows
OneTablePages ==
    { <<TableOf(sh, ls, body)>> :
        sh \in Shapes, ls \in LabelLists, body \in SeqsUpTo(BodyRowChoices, MaxBodyRows) }

Pages == ManyTablePages \cup OneTablePages

InitTable ==
    /\ FetchIdle
    /\ DateIdle
    /\ MainIdle
    /\ page \in Pages
    /\ located = 0
    /\ headers = <<>>
    /\ rows_out = <<>>
    /\ emitted_from = <<>>
    /\ tpc = "parsed"

\* main, line 307
FindCalendarTable ==
    /\ tpc = "parsed"
    /\ \E found \in {find_calendar_table(page)} :
        /\ located' = found[1]
        /\ headers' = found[2]
    /\ tpc' = "located"
    /\ UNCHANGED <<page, rows_out, emitted_from, fetchVars, dateVars, mainVars>>

\* main, lines 308-313
ParseMainTable ==
    /\ tpc = "located"
    /\ \E out \in {IF located = 0 THEN <<>>
                    ELSE parse_main_table(page[located], headers)} :
        /\ rows_out' = [k \in 1..Len(out) |-> out[k].rec]
        /\ emitted_from' = [k \in 1..Len(out) |-> out[k].tr]
    /\ tpc' = "extracted"
    /\ UNCHANGED <<page, located, headers, fetchVars, dateVars, mainVars>>

NextTable == FindCalendarTable \/ ParseMainTable

SpecTable == InitTable /\ [][NextTable]_vars

(***************************************************************************)
(* Claims about the table locator and the row extractor (SpecTable).       *)
(***************************************************************************)
\* the <tr> of a table that lie in its header section
HeadRows(tb) == {i \in 1..Len(tb.rows) : tb.rows[i].head}

\* the label list as the claim describes it: the cells of the explicit
\* header row or, absent one, the cells of the first row
LabelsOfHeaderRowOrFirstRow(tb) ==
    IF HeadRows(tb) # {}
    THEN LET r == CHOOSE i \in HeadRows(tb) : \A j \in HeadRows(tb) : i <= j
         IN  [k \in 1..Len(tb.rows[r].cells) |-> strip(tb.rows[r].cells[k].text)]
    ELSE IF tb.rows # <<>>
    THEN [k \in 1..Len(tb.rows[1].cells) |-> strip(tb.rows[1].cells[k].text)]
    ELSE <<>>

CanonicalFieldsOf(labels) ==
    {"uf", "selecao", "inscricoes", "prova"} \cap {header_key(labels[k]) : k \in 1..Len(labels)}

\* C6 as stated: when exactly one table of the page has a header label
\* list (explicit header row, else first row) that maps to at least 3 of
\* the canonical fields, that table is returned; None is returned only
\* when no table reaches the threshold.
C6_OnlyMatchingTableIsReturned ==
    tpc \in {"located", "extracted"} =>
        LET matching == {i \in 1..Len(page) :
                Cardinality(CanonicalFieldsOf(LabelsOfHeaderRowOrFirstRow(page[i]))) >= 3}
        IN  /\ Cardinality(matching) = 1 => located \in matching
            /\ located = 0 => matching = {}

\* the label list of the amended claim: the <th> cells of the <thead>, or
\* for a table without <thead> the cells of its first <tr>
LabelsOfTheadThOrFirstRow(tb) ==
    IF tb.thead
    THEN LET cells == FlattenSeq([i \in 1..Len(tb.rows) |->
                          IF tb.rows[i].head THEN tb.rows[i].cells ELSE <<>>])
             ths == SelectSeq(cells, LAMBDA c : c.th)
         IN  [k \in 1..Len(ths) |-> strip(ths[k].text)]
    ELSE IF tb.rows = <<>> THEN <<>>
    ELSE [k \in 1..Len(tb.rows[1].cells) |-> strip(tb.rows[1].cells[k].text)]

\* the tables of the page that have a <tbody> and whose label list maps
\* to at least 3 of the canonical fields
EligibleTables(pg) ==
    {i \in 1..Len(pg) :
        /\ pg[i].tbody
        /\ Cardinality(CanonicalFieldsOf(LabelsOfTheadThOrFirstRow(pg[i]))) >= 3}

\* C6 amended: when exactly one table of the page has a <tbody> and a
\* label list (<th> cells of its <thead>, else cells of its first row)
\* that maps to at least 3 of the canonical fields, that table is returned
\* with that label list, wherever it stands; None is returned exactly when
\* no table with a <tbody> reaches the threshold.
C6_OnlyEligibleTableIsReturned ==
    tpc \in {"located", "extracted"} =>
        /\ Cardinality(EligibleTables(page)) = 1 =>
              /\ located \in EligibleTables(page)
              /\ headers = LabelsOfTheadThOrFirstRow(page[located])
        /\ located = 0 <=> EligibleTables(page) = {}

\* the only eligible table is the second of two and is returned
C6_Witness ==
    /\ tpc = "located"
    /\ Len(page) = 2
    /\ EligibleTables(page) = {2}
    /\ located = 2

\* C7: every record comes from a row whose region cell and institution
\* cell are both non-empty, and the institution is the second cell's text
\* only when no header label resolves to the institution column.
C7_NoRecordFromEmptyRegionOrInstitution ==
    (tpc = "extracted" /\ located # 0) =>
        \A k \in 1..Len(rows_out) :
            LET tds == page[located].rows[emitted_from[k]].cells
                i_uf == header_map_of(headers)["uf"]
                i_sel == header_map_of(headers)["selecao"]
            IN  /\ i_uf # 0 /\ i_uf <= Len(tds) /\ strip(tds[i_uf].text) # <<>>
                /\ IF i_sel # 0
                   THEN /\ i_sel <= Len(tds)
                        /\ strip(tds[i_sel].text) # <<>>
                        /\ rows_out[k].INSTITUICAO = strip(tds[i_sel].text)
                   ELSE /\ strip(tds[2].text) # <<>>
                        /\ rows_out[k].INSTITUICAO = strip(tds[2].text)

\* the <tr> the header labels of the located table were taken from: the
\* rows of its header section or, without one, its first row
HeaderRowsOf(tb) ==
    IF HeadRows(tb) # {} THEN HeadRows(tb)
    ELSE IF ~tb.thead /\ tb.rows # <<>> THEN {1}
    ELSE {}

\* C10: the row the header labels were taken from never produces a record,
\* and every other row that has 3 or more cells, a region and an
\* institution produces one (no body row is skipped in its place).
C10_HeaderRowSkippedAndNoBodyRow ==
    (tpc = "extracted" /\ located # 0) =>
        LET tb == page[located]
            from == {emitted_from[k] : k \in 1..Len(emitted_from)}
        IN  /\ from \cap HeaderRowsOf(tb) = {}
            /\ \A i \in (1..Len(tb.rows)) \ HeaderRowsOf(tb) :
                   RowRecords(tb, header_map_of(headers), i) # <<>> => i \in from

(***************************************************************************)
(* parse_date_br_first and the sort key of main.                           *)
(***************************************************************************)
IsLeap(y) == (y % 4 = 0 /\ y % 100 # 0) \/ y % 400 = 0

DaysIn(y, m) ==
    IF m = 2 THEN (IF IsLeap(y) THEN 29 ELSE 28)
    ELSE IF m \in {4, 6, 9, 11} THEN 30 ELSE 31

\* datetime(y, mth, d) does not raise ValueError
ValidDate(y, m, d) ==
    /\ 1 <= y /\ y <= 9999
    /\ 1 <= m /\ m <= 12
    /\ 1 <= d /\ d <= DaysIn(y, m)

\* None of parse_date_br_first and datetime.max of the sort key: later
\* than every datetime(y, m, d)
NoDate == 100000000

\* a datetime(y, m, d) as a number that orders as datetimes do
DateNumber(y, m, d) == y * 10000 + m * 100 + d

\* parse_date_br_first(s) or datetime.max
FirstDateKey(s) ==
    LET ms == DateMatches(s)
        p == ms[1]
    IN  IF ms = <<>> THEN NoDate
        ELSE IF ValidDate(GroupY(s, p), GroupM(s, p), GroupD(s, p))
        THEN DateNumber(GroupY(s, p), GroupM(s, p), GroupD(s, p))
        ELSE NoDate

(***************************************************************************)
(* Records.  A record is a Python dict: a function from its keys to str.   *)
(***************************************************************************)
Dash == <<"-">>

\* r[k] = v
SetField(r, k, v) == [f \in DOMAIN r \cup {k} |-> IF f = k THEN v ELSE r[f]]

\* r.get(k, default)
GetOr(r, k, default) == IF k \in DOMAIN r THEN r[k] ELSE default

\* r.pop(k, None)
PopField(r, k) == [f \in DOMAIN r \ {k} |-> r[f]]

(***************************************************************************)
(* _extract_detail_from_soup.  A detail page is its tables (each a list of *)
(* rows, each a list of cell texts) and its <dl> (each the texts of its    *)
(* <dt> and of its <dd>).                                                  *)
(***************************************************************************)
accept_data_da_prova(label_norm) ==
    label_norm \in {<<"d", "a", "t", "a", " ", "d", "a", " ", "p", "r", "o", "v", "a">>, <<"p", "r", "o", "v", "a", " ", "o", "b", "j", "e", "t", "i", "v", "a">>, <<"d", "a", "t", "a", " ", "p", "r", "o", "v", "a">>}

accept_gabarito(label_norm) ==
    Contains(label_norm, <<"g", "a", "b", "a", "r", "i", "t", "o">>) /\ Contains(label_norm, <<"p", "r", "e", "l", "i", "m", "i", "n", "a", "r">>)

accept_resultado(label_norm) ==
    Contains(label_norm, <<"r", "e", "s", "u", "l", "t", "a", "d", "o", " ", "f", "i", "n", "a", "l">>) \/ Contains(label_norm, <<"c", "l", "a", "s", "s", "i", "f", "i", "c", "a", "c", "a", "o", " ", "f", "i", "n", "a", "l">>)

\* lines 220-229 (and 240-248): what one label/value pair does to `out`
AcceptPair(acc, label, value) ==
    LET label_norm == normalize_text(strip(label))
        v == strip(value)
    IN  IF accept_data_da_prova(label_norm)
        THEN (IF has_date(v) THEN SetField(acc, "data_prova", v) ELSE acc)
        ELSE IF accept_gabarito(label_norm)
        THEN (IF has_date(v) THEN SetField(acc, "gabarito_preliminar", v) ELSE acc)
        ELSE IF accept_resultado(label_norm)
        THEN (IF has_date(v) THEN SetField(acc, "resultado_final", v) ELSE acc)
        ELSE acc

\* the rows of one table, in order (lines 213-229)
RECURSIVE ScanRows(_, _, _)
ScanRows(trs, i, acc) ==
    IF i > Len(trs) THEN acc
    ELSE ScanRows(trs, i + 1,
                  IF Len(trs[i]) < 2 THEN acc ELSE AcceptPair(acc, trs[i][1], trs[i][2]))

RECURSIVE ScanTables(_, _, _)
ScanTables(tbs, i, acc) ==
    IF i > Len(tbs) THEN acc
    ELSE ScanTables(tbs, i + 1, ScanRows(tbs[i], 1, acc))

\* zip(dts, dds) of one <dl> (lines 234-248)
Min(a, b) == IF a <= b THEN a ELSE b

RECURSIVE ScanPairs(_, _, _)
ScanPairs(dl, i, acc) ==
    IF i > Min(Len(dl.dts), Len(dl.dds)) THEN acc
    ELSE ScanPairs(dl, i + 1, AcceptPair(acc, dl.dts[i], dl.dds[i]))

RECURSIVE ScanDls(_, _, _)
ScanDls(dls, i, acc) ==
    IF i > Len(dls) THEN acc
    ELSE ScanDls(dls, i + 1, ScanPairs(dls[i], 1, acc))

DetailKeys == {"data_prova", "gabarito_preliminar", "resultado_final"}

extract_detail_from_soup(soup) ==
    CHOOSE result \in
        { IF DOMAIN from_tables \cap DetailKeys = {}
          THEN ScanDls(soup.dls, 1, from_tables) ELSE from_tables :
            from_tables \in {ScanTables(soup.tables, 1, <<>>)} } : TRUE

(***************************************************************************)
(* parse_detail_page: the URL variants.                                    *)
(***************************************************************************)
StartsWith(s, prefix) ==
    Len(s) >= Len(prefix) /\ SubSeq(s, 1, Len(prefix)) = prefix

EndsWith(s, suffix) ==
    Len(s) >= Len(suffix) /\ SubSeq(s, Len(s) - Len(suffix) + 1, Len(s)) = suffix

\* s.rstrip("/")
RECURSIVE rstrip_slash(_)
rstrip_slash(s) ==
    IF s # <<>> /\ s[Len(s)] = "/" THEN rstrip_slash(SubSeq(s, 1, Len(s) - 1)) ELSE s

\* scheme and host of URL
UrlScheme == <<"h", "t", "t", "p", "s", ":">>
UrlOrigin == <<"h", "t", "t", "p", "s", ":", "/", "/", "m", "e", "d", ".", "e", "s", "t", "r", "a", "t", "e", "g", "i", "a", ".", "c", "o", "m">>

\* the network location of a link that begins with "//": up to the next
\* "/", "?" or "#"
RECURSIVE NetlocFrom(_, _)
NetlocFrom(s, p) ==
    IF p > Len(s) \/ s[p] \in {"/", "?", "#"} THEN <<>>
    ELSE <<s[p]>> \o NetlocFrom(s, p + 1)

\* urljoin(URL, link) raises ValueError ("Invalid IPv6 URL"): the link
\* names a network location with one bracket and not the other.  Links
\* here begin with "/" or "//".
UrljoinRaises(link) ==
    /\ StartsWith(link, <<"/", "/">>)
    /\ LET netloc == NetlocFrom(link, 3)
       IN  (\E k \in 1..Len(netloc) : netloc[k] = "[")
              # (\E k \in 1..Len(netloc) : netloc[k] = "]")

\* urljoin(URL, link) for a link that begins with "//" or with "/"
Urljoin(link) ==
    IF StartsWith(link, <<"/", "/">>) THEN UrlScheme \o link ELSE UrlOrigin \o link

\* line 255 raises
BaseRaises(edital_url) == ~StartsWith(edital_url, <<"h", "t", "t", "p">>) /\ UrljoinRaises(edital_url)

\* lines 255-261
VariantsOf(edital_url) ==
    LET base == IF StartsWith(edital_url, <<"h", "t", "t", "p">>) THEN edital_url ELSE Urljoin(edital_url)
    IN  << base,
           IF ~EndsWith(base, <<"/">>) THEN base \o <<"/">> ELSE base,
           IF ~Contains(base, <<"a", "m", "p">>)
           THEN base \o (IF Contains(base, <<"?">>) THEN <<"&">> ELSE <<"?">>) \o <<"a", "m", "p">>
           ELSE base,
           rstrip_slash(base) \o <<"/", "a", "m", "p", "/">> >>

(***************************************************************************)
(* Input texts of the date corrector: every concatenation of at most       *)
(* MaxInsParts (MaxProvaParts) pieces.  A piece that ends in a space keeps *)
(* the \b of the date before it; "1" glued before a date takes the \b      *)
(* away; "10/02/0009" followed by "/01/2024 " is one date whose rewritten  *)
(* year has fewer digits.                                                  *)
(***************************************************************************)
MaxInsParts == 2
MaxProvaParts == 2

Pad4(n) ==
    IF n < 10 THEN <<"0", "0", "0">> \o Dec(n)
    ELSE IF n < 100 THEN <<"0", "0">> \o Dec(n)
    ELSE IF n < 1000 THEN <<"0">> \o Dec(n)
    ELSE Dec(n)

\* the text "dd/mm/yyyy"
Dt(d, m, y) == Pad2(d) \o <<"/">> \o Pad2(m) \o <<"/">> \o Pad4(y)

RECURSIVE TextsOf(_, _)
TextsOf(pieces, n) ==
    IF n = 0 THEN {<<>>}
    ELSE LET shorter == TextsOf(pieces, n - 1)
         IN  shorter \cup {t \o c : t \in shorter, c \in pieces}

InsPieces ==
    { Dt(1, 11, 2024) \o <<" ">>,
      Dt(15, 12, 2025) \o <<" ">>,
      Dt(30, 9, 2024) \o <<" ">>,
      Dt(5, 13, 2024) \o <<" ">>,
      Dt(1, 11, 9) \o <<" ">>,
      <<"a", " ">> }

ProvaPieces ==
    { Dt(10, 2, 2024) \o <<" ">>,
      Dt(17, 3, 2025) \o <<" ">>,
      Dt(20, 4, 2024) \o <<" ">>,
      Dt(10, 2, 9),
      <<"/", "0", "1", "/", "2", "0", "2", "4", " ">>,
      <<"1">> }

InsTexts == TextsOf(InsPieces, MaxInsParts)
ProvaTexts == TextsOf(ProvaPieces, MaxProvaParts)

(***************************************************************************)
(* _req_get(url, tries=4, base_sleep=0.8).  What requests.get answers is   *)
(* the environment's choice: 0 stands for a transport failure (the call    *)
(* raises, there is no response), any other number is resp.status_code.    *)
(* Sleeps are counted in tenths of a second.                               *)
(***************************************************************************)
Tries == 4
BaseSleepTenths == 8

TransportFailure == 0
Answers == {TransportFailure, 200, 404, 429, 500, 503}

RECURSIVE Pow2(_)
Pow2(n) == IF n = 0 THEN 1 ELSE 2 * Pow2(n - 1)

\* resp.raise_for_status() raises for 4xx and 5xx
RaiseForStatusRaises(status) == 400 <= status /\ status < 600

\* lines 26-39: the try body raises
TryBodyRaises(answer) ==
    \/ answer = TransportFailure
    \/ answer >= 500
    \/ RaiseForStatusRaises(answer)

InitFetch ==
    /\ attempt = 0
    /\ responses = <<>>
    /\ slept = <<>>
    /\ last_err = NoError
    /\ fetchState = "running"
    /\ DateIdle
    /\ TableIdle
    /\ MainIdle

\* one iteration of `for i in range(tries)` in which the try body raises:
\* the except clause records the error and sleeps base_sleep * 2**i
RequestFails ==
    /\ fetchState = "running"
    /\ attempt < Tries
    /\ \E answer \in Answers :
        /\ TryBodyRaises(answer)
        /\ responses' = Append(responses, answer)
        /\ last_err' = answer
    /\ slept' = Append(slept, BaseSleepTenths * Pow2(attempt))
    /\ attempt' = attempt + 1
    /\ UNCHANGED <<fetchState, dateVars, tableVars, mainVars>>

\* one iteration that reaches `return resp`
RequestReturns ==
    /\ fetchState = "running"
    /\ attempt < Tries
    /\ \E answer \in Answers :
        /\ ~TryBodyRaises(answer)
        /\ responses' = Append(responses, answer)
    /\ fetchState' = "returned"
    /\ UNCHANGED <<attempt, slept, last_err, dateVars, tableVars, mainVars>>

\* line 44: the loop is exhausted, raise last_err
RaiseLast ==
    /\ fetchState = "running"
    /\ attempt = Tries
    /\ fetchState' = "raised"
    /\ UNCHANGED <<attempt, responses, slept, last_err, dateVars, tableVars, mainVars>>

NextFetch == RequestFails \/ RequestReturns \/ RaiseLast

SpecFetch == InitFetch /\ [][NextFetch]_vars

\* C1: a 4xx response is not retried: it is the last request of the fetch,
\* no backoff sleep follows it and the fetch has failed.
C1_ClientErrorFailsAtOnce ==
    \A k \in 1..Len(responses) :
        (400 <= responses[k] /\ responses[k] < 500) =>
            /\ k = Len(responses)
            /\ Len(slept) < k
            /\ fetchState = "raised"

(***************************************************************************)
(* The date corrector applied to a registration text and an exam text,     *)
(* then applied again to its own result.                                   *)
(***************************************************************************)
InitDate ==
    /\ FetchIdle
    /\ TableIdle
    /\ MainIdle
    /\ inscricoes \in InsTexts
    /\ prova \in ProvaTexts
    /\ adjusted = <<>>
    /\ readjusted = <<>>
    /\ dpc = "input"

Adjust ==
    /\ dpc = "input"
    /\ adjusted' = ajustar_ano_prova_pelo_periodo_inscricao(inscricoes, prova)
    /\ dpc' = "adjusted"
    /\ UNCHANGED <<inscricoes, prova, readjusted, fetchVars, tableVars, mainVars>>

Readjust ==
    /\ dpc = "adjusted"
    /\ readjusted' = ajustar_ano_prova_pelo_periodo_inscricao(inscricoes, adjusted)
    /\ dpc' = "readjusted"
    /\ UNCHANGED <<inscricoes, prova, adjusted, fetchVars, tableVars, mainVars>>

NextDate == Adjust \/ Readjust

SpecDate == InitDate /\ [][NextDate]_vars

(***************************************************************************)
(* Claims about the date corrector (checked under SpecDate).               *)
(***************************************************************************)
\* the years in which the registration text has a date in October,
\* November or December
OctToDecYears(ins_txt) ==
    LET ms == DateMatches(ins_txt)
    IN  {GroupY(ins_txt, ms[k]) :
            k \in {j \in 1..Len(ms) : GroupM(ins_txt, ms[j]) \in {10, 11, 12}}}

\* the exam text read left to right, each date of January to March whose
\* year is in `years` given the next year, everything else copied
RECURSIVE RewrittenLeftToRight(_, _, _)
RewrittenLeftToRight(s, p, years) ==
    IF p > Len(s) THEN <<>>
    ELSE IF DateAt(s, p)
    THEN (IF GroupY(s, p) \in years /\ GroupM(s, p) \in {1, 2, 3}
          THEN SubSeq(s, p, p + 5) \o Dec(GroupY(s, p) + 1)
          ELSE SubSeq(s, p, p + 9))
         \o RewrittenLeftToRight(s, p + 10, years)
    ELSE <<s[p]>> \o RewrittenLeftToRight(s, p + 1, years)

\* C2: the corrected exam text is the exam text with exactly the January
\* to March dates whose year Y has an October to December date in the
\* registration text moved to year Y+1, every other date and all other
\* text unchanged; with no date in either text the exam text is unchanged.
C2_RewritesExactlyQ1DatesOfQ4Years ==
    dpc \in {"adjusted", "readjusted"} =>
        adjusted =
            IF ~has_date(inscricoes) \/ ~has_date(prova) THEN prova
            ELSE RewrittenLeftToRight(prova, 1, OctToDecYears(inscricoes))

\* the years of the exam-text dates that one application rewrites
RewrittenYears(ins_txt, prova_txt) ==
    LET ms == DateMatches(prova_txt)
        q4 == anos_q4_de(anos_meses_de(ins_txt))
    IN  {GroupY(prova_txt, ms[k]) :
            k \in {j \in 1..Len(ms) :
                      /\ GroupY(prova_txt, ms[j]) \in q4
                      /\ GroupM(prova_txt, ms[j]) \in {1, 2, 3}}}

\* no rewritten date lands on a year the registration text also counts as
\* a fourth-quarter year, and every rewritten year keeps its four digits
NoChainedYear(ins_txt, prova_txt) ==
    \A y \in RewrittenYears(ins_txt, prova_txt) :
        /\ y >= 1000
        /\ y + 1 \notin anos_q4_de(anos_meses_de(ins_txt))

\* C3 as stated: reapplying the correction to corrected text changes
\* nothing, for every registration text and exam text.
C3_Idempotent ==
    dpc = "readjusted" => readjusted = adjusted

\* C3 amended: reapplying the correction changes nothing whenever every
\* date the first application rewrote had a year Y >= 1000 for which Y+1
\* is not itself a year with a registration date of month >= 10.
C3_IdempotentWithoutChainedYear ==
    (dpc = "readjusted" /\ NoChainedYear(inscricoes, prova)) =>
        readjusted = adjusted

\* a reapplication after a first application that rewrote a date
C3_Witness ==
    /\ dpc = "readjusted"
    /\ NoChainedYear(inscricoes, prova)
    /\ adjusted # prova
    /\ readjusted = adjusted

(***************************************************************************)
(* main: the loop over the records (lines 316-336).                        *)
(***************************************************************************)
EmptyDict == [f \in {} |-> <<>>]

HasDetail(d) == DOMAIN d \cap DetailKeys # {}

\* lines 330-331 and the mutant that stores what the detail page gave
detail_verbatim(detail, k) == GetOr(detail, k, <<>>)
detail_or_dash(detail, k) ==
    IF has_date(GetOr(detail, k, <<>>)) THEN detail[k] ELSE Dash

\* lines 319-320 and 333-334
WithDashes(r) ==
    SetField(SetField(r, "GABARITO_PRELIMINAR", Dash), "RESULTADO_FINAL", Dash)

\* lines 326-331
Reconciled(r, detail) ==
    LET detail_dp == GetOr(detail, "data_prova", <<>>)
        r1 == IF detail_dp # <<>> /\ has_date(detail_dp)
              THEN SetField(r, "PROVA_OBJETIVA", detail_dp) ELSE r
        r2 == SetField(r1, "GABARITO_PRELIMINAR", detail_or_dash(detail, "gabarito_preliminar"))
    IN  SetField(r2, "RESULTADO_FINAL", detail_or_dash(detail, "resultado_final"))

\* what the fetch and the parse of one variant give: a failure or the
\* parsed page
DetailSoups ==
    { [tables |-> << << <<<<"D", "a", "t", "a", " ", "d", "a", " ", "P", "r", "o", "v", "a">>, <<"1", "2", "/", "0", "1", "/", "2", "0", "2", "5">>>>,
                        <<<<"G", "a", "b", "a", "r", "i", "t", "o", " ", "P", "r", "e", "l", "i", "m", "i", "n", "a", "r">>, <<"e", "m", " ", "b", "r", "e", "v", "e">>>>,
                        <<<<"R", "e", "s", "u", "l", "t", "a", "d", "o", " ", "F", "i", "n", "a", "l", " ">>, <<" ", "2", "0", "/", "0", "3", "/", "2", "0", "2", "5">>>>,
                        <<<<"E", "d", "i", "t", "a", "l">>>> >> >>,
       dls |-> <<>>],
      [tables |-> << << <<<<"D", "a", "t", "a", " ", "d", "a", " ", "P", "r", "o", "v", "a">>, <<"a", " ", "d", "e", "f", "i", "n", "i", "r">>>> >> >>,
       dls |-> << [dts |-> <<<<"P", "r", "o", "v", "a", " ", "o", "b", "j", "e", "t", "i", "v", "a">>, <<"G", "a", "b", "a", "r", "i", "t", "o", " ", " ", "P", "r", "e", "l", "i", "m", "i", "n", "a", "r">>, <<"O", "b", "s">>>>,
                   dds |-> <<<<"e", "m", " ", "b", "r", "e", "v", "e">>, <<"1", "3", "/", "0", "1", "/", "2", "0", "2", "5">>>>] >>],
      [tables |-> << << <<<<"G", "a", "b", "a", "r", "i", "t", "o">>, <<"1", "3", "/", "0", "1", "/", "2", "0", "2", "5">>>> >> >>,
       dls |-> <<>>] }

VariantOutcomes ==
    {[kind |-> "fetch_error"], [kind |-> "parse_error"]}
        \cup {[kind |-> "page", soup |-> sp] : sp \in DetailSoups}

RowInLoop ==
    /\ mpc = "detail"
    /\ idx <= Len(rows)

\* lines 317-321: the record has no notice link
RowWithoutLink ==
    /\ RowInLoop
    /\ vpos = 0
    /\ GetOr(rows[idx], "EDITAL_URL", <<>>) = <<>>
    /\ rows' = [rows EXCEPT ![idx] = WithDashes(rows[idx])]
    /\ detail_of' = Append(detail_of, [kind |-> "nolink", result |-> EmptyDict, tried |-> <<>>])
    /\ idx' = idx + 1
    /\ UNCHANGED <<mpc, unique_rows, csv_file, json_file, variants, vpos, detail_out,
                   main_prova, tried, before_sort, fetchVars, dateVars, tableVars>>

\* line 323 calls parse_detail_page, line 255 raises, lines 332-336
DetailRaises ==
    /\ RowInLoop
    /\ vpos = 0
    /\ GetOr(rows[idx], "EDITAL_URL", <<>>) # <<>>
    /\ BaseRaises(rows[idx].EDITAL_URL)
    /\ rows' = [rows EXCEPT ![idx] = WithDashes(rows[idx])]
    /\ detail_of' = Append(detail_of, [kind |-> "raised", result |-> EmptyDict, tried |-> <<>>])
    /\ idx' = idx + 1
    /\ UNCHANGED <<mpc, unique_rows, csv_file, json_file, variants, vpos, detail_out,
                   main_prova, tried, before_sort, fetchVars, dateVars, tableVars>>

\* line 323 calls parse_detail_page, lines 253-262
BeginDetail ==
    /\ RowInLoop
    /\ vpos = 0
    /\ GetOr(rows[idx], "EDITAL_URL", <<>>) # <<>>
    /\ ~BaseRaises(rows[idx].EDITAL_URL)
    /\ variants' = VariantsOf(rows[idx].EDITAL_URL)
    /\ vpos' = 1
    /\ detail_out' = EmptyDict
    /\ tried' = <<>>
    /\ UNCHANGED <<rows, mpc, idx, unique_rows, csv_file, json_file,
                   main_prova, detail_of, before_sort, fetchVars, dateVars, tableVars>>

\* one iteration of the loop of lines 263-271: the fetch or the parse of
\* the variant fails (line 270, continue) or gives a page
TryVariant ==
    /\ RowInLoop
    /\ vpos \in 1..Len(variants)
    /\ tried' = Append(tried, variants[vpos])
    /\ \E outcome \in VariantOutcomes :
        IF outcome.kind = "page"
        THEN \E found \in {extract_detail_from_soup(outcome.soup)} :
                /\ detail_out' = found
                /\ vpos' = IF HasDetail(found) THEN Len(variants) + 1 ELSE vpos + 1
        ELSE /\ vpos' = vpos + 1
             /\ UNCHANGED detail_out
    /\ UNCHANGED <<rows, mpc, idx, unique_rows, csv_file, json_file, variants,
                   main_prova, detail_of, before_sort, fetchVars, dateVars, tableVars>>

\* line 272 returns `out`, lines 326-331 and 336
FinishRow ==
    /\ RowInLoop
    /\ vpos > Len(variants)
    /\ vpos # 0
    /\ rows' = [rows EXCEPT ![idx] = Reconciled(rows[idx], detail_out)]
    /\ detail_of' = Append(detail_of, [kind |-> "returned", result |-> detail_out, tried |-> tried])
    /\ idx' = idx + 1
    /\ vpos' = 0
    /\ UNCHANGED <<mpc, unique_rows, csv_file, json_file, variants, detail_out,
                   main_prova, tried, before_sort, fetchVars, dateVars, tableVars>>

(***************************************************************************)
(* main: year adjustment, deduplication, sort, persistence.                *)
(***************************************************************************)
\* lines 339-340
AdjustYears ==
    /\ mpc = "detail"
    /\ idx > Len(rows)
    /\ rows' = [k \in 1..Len(rows) |->
                   SetField(rows[k], "PROVA_OBJETIVA",
                            ajustar_ano_prova_pelo_periodo_inscricao(
                                GetOr(rows[k], "INSCRICOES", <<>>),
                                GetOr(rows[k], "PROVA_OBJETIVA", <<>>)))]
    /\ mpc' = "dedup"
    /\ UNCHANGED <<idx, unique_rows, csv_file, json_file, variants, vpos, detail_out,
                   main_prova, detail_of, tried, before_sort, fetchVars, dateVars, tableVars>>

\* lines 344-350 and the mutant that compares region and institution as
\* written
key_of_case_sensitive(x) ==
    << strip(GetOr(x, "UF", <<>>)),
       strip(GetOr(x, "INSTITUICAO", <<>>)),
       strip(GetOr(x, "INSCRICOES", <<>>)),
       strip(GetOr(x, "PROVA_OBJETIVA", <<>>)) >>
key_of(x) ==
    << upper(strip(GetOr(x, "UF", <<>>))),
       upper(strip(GetOr(x, "INSTITUICAO", <<>>))),
       strip(GetOr(x, "INSCRICOES", <<>>)),
       strip(GetOr(x, "PROVA_OBJETIVA", <<>>)) >>

\* the loop of lines 351-357
RECURSIVE DedupFrom(_, _, _)
DedupFrom(rs, i, seen) ==
    IF i > Len(rs) THEN <<>>
    ELSE IF key_of(rs[i]) \in seen THEN DedupFrom(rs, i + 1, seen)
    ELSE <<rs[i]>> \o DedupFrom(rs, i + 1, seen \cup {key_of(rs[i])})

Dedup ==
    /\ mpc = "dedup"
    /\ unique_rows' = DedupFrom(rows, 1, {})
    /\ mpc' = "sort"
    /\ UNCHANGED <<rows, idx, csv_file, json_file, variants, vpos, detail_out,
                   main_prova, detail_of, tried, before_sort, fetchVars, dateVars, tableVars>>

\* line 360: the key of a record
sort_key(r) == FirstDateKey(GetOr(r, "PROVA_OBJETIVA", <<>>))

\* list.sort is stable: a record goes after the records whose key is not
\* greater than its own; the mutant puts it before the records of equal key
InsertBeforeEqual(sorted, r) ==
    LET n == Cardinality({k \in 1..Len(sorted) : sort_key(sorted[k]) < sort_key(r)})
    IN  SubSeq(sorted, 1, n) \o <<r>> \o SubSeq(sorted, n + 1, Len(sorted))
InsertStable(sorted, r) ==
    LET n == Cardinality({k \in 1..Len(sorted) : sort_key(sorted[k]) <= sort_key(r)})
    IN  SubSeq(sorted, 1, n) \o <<r>> \o SubSeq(sorted, n + 1, Len(sorted))

RECURSIVE SortedFrom(_, _, _)
SortedFrom(rs, i, sorted) ==
    IF i > Len(rs) THEN sorted
    ELSE SortedFrom(rs, i + 1, InsertStable(sorted, rs[i]))

Sort ==
    /\ mpc = "sort"
    /\ before_sort' = unique_rows
    /\ unique_rows' = SortedFrom(unique_rows, 1, <<>>)
    /\ mpc' = "save"
    /\ UNCHANGED <<rows, idx, csv_file, json_file, variants, vpos, detail_out,
                   main_prova, detail_of, tried, fetchVars, dateVars, tableVars>>

\* save_csv: the columns of the file
CsvKeys ==
    {"UF", "INSTITUICAO", "INSCRICOES", "PROVA_OBJETIVA", "GABARITO_PRELIMINAR",
     "RESULTADO_FINAL"}

\* lines 363-368
Save ==
    /\ mpc = "save"
    /\ csv_file' = [k \in 1..Len(unique_rows) |->
                       [c \in CsvKeys |-> GetOr(unique_rows[k], c, <<>>)]]
    /\ unique_rows' = [k \in 1..Len(unique_rows) |-> PopField(unique_rows[k], "EDITAL_URL")]
    /\ json_file' = unique_rows'
    /\ mpc' = "done"
    /\ UNCHANGED <<rows, idx, variants, vpos, detail_out,
                   main_prova, detail_of, tried, before_sort, fetchVars, dateVars, tableVars>>

(***************************************************************************)
(* The records main starts from: what parse_main_table returned.           *)
(***************************************************************************)
MaxRows == 2

MainRows ==
    { [UF |-> <<"S", "P">>, INSTITUICAO |-> <<"U", "S", "P">>, INSCRICOES |-> <<"0", "1", "/", "1", "1", "/", "2", "0", "2", "4">>,
       PROVA_OBJETIVA |-> <<"1", "0", "/", "0", "2", "/", "2", "0", "2", "4">>, EDITAL_URL |-> <<"/", "e", "1">>],
      [UF |-> <<"s", "p">>, INSTITUICAO |-> <<"U", "s", "p">>, INSCRICOES |-> <<"0", "1", "/", "1", "1", "/", "2", "0", "2", "4">>,
       PROVA_OBJETIVA |-> <<"1", "0", "/", "0", "2", "/", "2", "0", "2", "4">>, EDITAL_URL |-> <<>>],
      [UF |-> <<"R", "J">>, INSTITUICAO |-> <<"U", "E", "R", "J">>, INSCRICOES |-> <<"0", "1", "/", "0", "8", "/", "2", "0", "2", "4">>,
       PROVA_OBJETIVA |-> <<"a", " ", "d", "e", "f", "i", "n", "i", "r">>, EDITAL_URL |-> <<"h", "t", "t", "p", ":", "/", "/", "x", "/", "e", "?", "a", "m", "p">>],
      [UF |-> <<"M", "G">>, INSTITUICAO |-> <<"U", "F", "M", "G">>, INSCRICOES |-> <<>>,
       PROVA_OBJETIVA |-> <<"3", "1", "/", "0", "2", "/", "2", "0", "2", "5">>, EDITAL_URL |-> <<"/", "/", "[">>] }

InitMain ==
    /\ FetchIdle
    /\ DateIdle
    /\ TableIdle
    /\ rows \in SeqsUpTo(MainRows, MaxRows)
    /\ mpc = "detail"
    /\ idx = 1
    /\ unique_rows = <<>>
    /\ csv_file = <<>>
    /\ json_file = <<>>
    /\ variants = <<>>
    /\ vpos = 0
    /\ detail_out = EmptyDict
    /\ main_prova = [k \in 1..Len(rows) |-> rows[k].PROVA_OBJETIVA]
    /\ detail_of = <<>>
    /\ tried = <<>>
    /\ before_sort = <<>>

NextMain ==
    \/ RowWithoutLink
    \/ DetailRaises
    \/ BeginDetail
    \/ TryVariant
    \/ FinishRow
    \/ AdjustYears
    \/ Dedup
    \/ Sort
    \/ Save

SpecMain == InitMain /\ [][NextMain]_vars

(***************************************************************************)
(* The deduplication, the sort and the persistence of main on every list   *)
(* of up to MaxRecs records.                                               *)
(***************************************************************************)
MaxRecs == 3

PostRecord(uf, inst, inscr, prv, gab) ==
    [UF |-> uf, INSTITUICAO |-> inst, INSCRICOES |-> inscr, PROVA_OBJETIVA |-> prv,
     EDITAL_URL |-> <<>>, GABARITO_PRELIMINAR |-> gab, RESULTADO_FINAL |-> Dash]

PostRecords ==
    { PostRecord(<<"S", "P">>, <<"U", "S", "P">>, <<"0", "1", "/", "1", "1", "/", "2", "0", "2", "4">>, <<"1", "0", "/", "0", "2", "/", "2", "0", "2", "5">>, Dash),
      PostRecord(<<" ", "s", "p">>, <<"U", "s", "p", " ">>, <<"0", "1", "/", "1", "1", "/", "2", "0", "2", "4", " ">>, <<" ", "1", "0", "/", "0", "2", "/", "2", "0", "2", "5">>, <<"1", "1", "/", "0", "2", "/", "2", "0", "2", "5">>),
      PostRecord(<<"R", "J">>, <<"U", "E", "R", "J">>, <<>>, <<"a", " ", "d", "e", "f", "i", "n", "i", "r">>, Dash),
      PostRecord(<<"M", "G">>, <<"U", "F", "M", "G">>, <<>>, <<"0", "5", "/", "0", "1", "/", "2", "0", "2", "5">>, Dash),
      PostRecord(<<"M", "G">>, <<"U", "F", "M", "G">>, <<>>, <<"3", "1", "/", "0", "2", "/", "2", "0", "2", "5", " ", "o", "u", " ", "0", "5", "/", "0", "1", "/", "2", "0", "2", "5">>, Dash),
      PostRecord(<<"B", "A">>, <<"U", "F", "B", "A">>, <<>>, <<"P", "r", "o", "v", "a", ":", " ", "0", "5", "/", "0", "1", "/", "2", "0", "2", "5", " ", "e", " ", "1", "2", "/", "0", "1", "/", "2", "0", "2", "5">>, Dash) }

InitPost ==
    /\ FetchIdle
    /\ DateIdle
    /\ TableIdle
    /\ rows \in SeqsUpTo(PostRecords, MaxRecs)
    /\ mpc = "dedup"
    /\ idx = Len(rows) + 1
    /\ unique_rows = <<>>
    /\ csv_file = <<>>
    /\ json_file = <<>>
    /\ variants = <<>>
    /\ vpos = 0
    /\ detail_out = EmptyDict
    /\ main_prova = <<>>
    /\ detail_of = <<>>
    /\ tried = <<>>
    /\ before_sort = <<>>

NextPost == Dedup \/ Sort \/ Save

SpecPost == InitPost /\ [][NextPost]_vars

(***************************************************************************)
(* Claims about the deduplication and the sort (SpecPost).                 *)
(***************************************************************************)
\* the composite key of a record as the claim words it
C4_CompositeKey(r) ==
    << upper(strip(r.UF)), upper(strip(r.INSTITUICAO)),
       strip(r.INSCRICOES), strip(r.PROVA_OBJETIVA) >>

\* the index in rs of the first record with the key of r
C4_FirstWithKey(rs, r) ==
    CHOOSE i \in 1..Len(rs) :
        /\ C4_CompositeKey(rs[i]) = C4_CompositeKey(r)
        /\ \A j \in 1..(i - 1) : C4_CompositeKey(rs[j]) # C4_CompositeKey(r)

C4_NoTwoWithSameKey(rs) ==
    \A i, j \in 1..Len(rs) :
        C4_CompositeKey(rs[i]) = C4_CompositeKey(rs[j]) => i = j

\* C4: after the deduplication no two kept records have the same composite
\* key, every key of the input is kept, the kept record of a key is the
\* first input record with that key, the kept records are in input order,
\* and no two persisted records have the same key.
C4_DedupKeepsFirstOfEachKey ==
    /\ mpc = "sort" =>
          /\ C4_NoTwoWithSameKey(unique_rows)
          /\ \A i \in 1..Len(rows) : \E k \in 1..Len(unique_rows) :
                C4_CompositeKey(unique_rows[k]) = C4_CompositeKey(rows[i])
          /\ \A k \in 1..Len(unique_rows) :
                /\ \E i \in 1..Len(rows) : C4_CompositeKey(rows[i]) = C4_CompositeKey(unique_rows[k])
                /\ unique_rows[k] = rows[C4_FirstWithKey(rows, unique_rows[k])]
          /\ \A k, l \in 1..Len(unique_rows) :
                k < l => C4_FirstWithKey(rows, unique_rows[k]) < C4_FirstWithKey(rows, unique_rows[l])
    /\ mpc \in {"save", "done"} => C4_NoTwoWithSameKey(unique_rows)
    /\ mpc = "done" => C4_NoTwoWithSameKey(json_file) /\ C4_NoTwoWithSameKey(csv_file)

\* three records, the first and the third differ by case and surrounding
\* whitespace only: the first and the second are kept
C4_Witness ==
    /\ mpc = "sort"
    /\ Len(rows) = 3
    /\ rows[1] # rows[3]
    /\ C4_CompositeKey(rows[1]) = C4_CompositeKey(rows[3])
    /\ C4_CompositeKey(rows[1]) # C4_CompositeKey(rows[2])
    /\ unique_rows = <<rows[1], rows[2]>>

\* the first dd/mm/yyyy of the text as <<year, month, day>>, <<>> when the
\* text has none or when it is not a date of the calendar
C5_FirstDate(text) ==
    LET ms == DateMatches(text)
    IN  IF ms = <<>> THEN <<>>
        ELSE LET y == GroupY(text, ms[1])
                 m == GroupM(text, ms[1])
                 d == GroupD(text, ms[1])
             IN  IF /\ y >= 1 /\ m \in 1..12 /\ d >= 1
                    /\ d <= (IF m = 2 THEN (IF (y % 4 = 0 /\ y % 100 # 0) \/ y % 400 = 0
                                            THEN 29 ELSE 28)
                             ELSE IF m \in {4, 6, 9, 11} THEN 30 ELSE 31)
                 THEN <<y, m, d>> ELSE <<>>

C5_Earlier(a, b) ==
    \/ a[1] < b[1]
    \/ a[1] = b[1] /\ a[2] < b[2]
    \/ a[1] = b[1] /\ a[2] = b[2] /\ a[3] < b[3]

\* the position a sorted record had after the deduplication
C5_PositionBefore(r) ==
    CHOOSE p \in 1..Len(before_sort) : PopField(before_sort[p], "EDITAL_URL") = PopField(r, "EDITAL_URL")

C5_InOrder(out) ==
    /\ Len(out) = Len(before_sort)
    /\ \A p \in 1..Len(before_sort) : \E k \in 1..Len(out) :
          PopField(before_sort[p], "EDITAL_URL") = PopField(out[k], "EDITAL_URL")
    /\ \A k, l \in 1..Len(out) : k < l =>
          LET a == C5_FirstDate(out[k].PROVA_OBJETIVA)
              b == C5_FirstDate(out[l].PROVA_OBJETIVA)
          IN  /\ a = <<>> => b = <<>>
              /\ (a # <<>> /\ b # <<>>) => ~C5_Earlier(b, a)
              /\ a = b => C5_PositionBefore(out[k]) < C5_PositionBefore(out[l])

\* C5: the sorted records, and the records of both files, are the records
\* left by the deduplication, non-decreasing by first date, records without
\* a parseable first date last, records of equal first date or without one
\* in the order the deduplication left them.
C5_SortedByFirstDateStable ==
    /\ mpc \in {"save", "done"} => C5_InOrder(unique_rows)
    /\ mpc = "done" =>
          /\ C5_InOrder(json_file)
          /\ Len(csv_file) = Len(json_file)
          /\ \A k \in 1..Len(csv_file) : \A c \in CsvKeys : csv_file[k][c] = json_file[k][c]

\* the sort moved a dated record before an undated one and kept two records
\* of equal first date in their order
C5_Witness ==
    /\ mpc = "done"
    /\ Len(json_file) = 3
    /\ json_file # [k \in 1..3 |-> PopField(before_sort[k], "EDITAL_URL")]
    /\ C5_FirstDate(json_file[1].PROVA_OBJETIVA) # <<>>
    /\ C5_FirstDate(json_file[1].PROVA_OBJETIVA) = C5_FirstDate(json_file[2].PROVA_OBJETIVA)
    /\ C5_FirstDate(json_file[3].PROVA_OBJETIVA) = <<>>
    /\ DateMatches(json_file[3].PROVA_OBJETIVA) # <<>>

(***************************************************************************)
(* Claims about the detail loop of main (SpecMain).                        *)
(***************************************************************************)
C8_SentinelOrDated(r, k) ==
    /\ k \in DOMAIN r
    /\ r[k] = <<"-">> \/ DateMatches(r[k]) # <<>>

\* C8: in every persisted record the answer-key field and the final-result
\* field are present and are "-" or contain a dd/mm/yyyy date.
C8_DetailFieldsSentinelOrDated ==
    mpc = "done" =>
        /\ Len(json_file) = Len(csv_file)
        /\ \A k \in 1..Len(json_file) :
              \A f \in {"GABARITO_PRELIMINAR", "RESULTADO_FINAL"} :
                  /\ C8_SentinelOrDated(json_file[k], f)
                  /\ C8_SentinelOrDated(csv_file[k], f)

\* a record with a notice link whose detail page gave "em breve" as the
\* answer key and a dated final result is persisted next to a record
\* without link
C8_Witness ==
    /\ mpc = "done"
    /\ Len(json_file) = 2
    /\ \E k \in 1..Len(detail_of) :
          /\ detail_of[k].kind = "returned"
          /\ rows[k].EDITAL_URL # <<>>
          /\ DOMAIN detail_of[k].result = {"data_prova", "resultado_final"}
          /\ \E j \in 1..2 :
                /\ json_file[j].UF = rows[k].UF
                /\ json_file[j].GABARITO_PRELIMINAR = <<"-">>
                /\ json_file[j].RESULTADO_FINAL = detail_of[k].result["resultado_final"]
    /\ \E k \in 1..Len(detail_of) : detail_of[k].kind = "nolink"

\* tried is the beginning of the variants, in their order
C9_TriedInOrder(t, vs) ==
    /\ Len(t) <= Len(vs)
    /\ \A k \in 1..Len(t) : t[k] = vs[k]

\* C9: parse_detail_page never raises for a record with a notice link; it
\* tries the variants in their order and returns an empty result when none
\* yields a recognised field; the record then keeps the exam text of the
\* main table and has "-" in both detail fields; every record is processed
\* and the run reaches persistence.
C9_DetailNeverRaises ==
    /\ \A k \in 1..Len(detail_of) : detail_of[k].kind # "raised"
    /\ vpos # 0 => C9_TriedInOrder(tried, variants)
    /\ \A k \in 1..Len(detail_of) :
          (detail_of[k].kind = "returned" /\ DOMAIN detail_of[k].result \cap DetailKeys = {}) =>
              /\ detail_of[k].result = EmptyDict
              /\ Len(detail_of[k].tried) = 4
              /\ mpc = "detail" =>
                    /\ rows[k].PROVA_OBJETIVA = main_prova[k]
                    /\ rows[k].GABARITO_PRELIMINAR = <<"-">>
                    /\ rows[k].RESULTADO_FINAL = <<"-">>
    /\ mpc # "detail" => Len(detail_of) = Len(rows)
    /\ mpc # "done" => ENABLED NextMain

\* C9 without its first sentence
C9_RunGoesOn ==
    /\ vpos # 0 => C9_TriedInOrder(tried, variants)
    /\ \A k \in 1..Len(detail_of) :
          (detail_of[k].kind # "nolink" /\ DOMAIN detail_of[k].result \cap DetailKeys = {}) =>
              /\ detail_of[k].result = EmptyDict
              /\ mpc = "detail" =>
                    /\ rows[k].PROVA_OBJETIVA = main_prova[k]
                    /\ rows[k].GABARITO_PRELIMINAR = <<"-">>
                    /\ rows[k].RESULTADO_FINAL = <<"-">>
    /\ mpc # "detail" => Len(detail_of) = Len(rows)
    /\ mpc # "done" => ENABLED NextMain

====
